---- MODULE Spec2Model ----
(***************************************************************************)
(* ToBAC, team-based access control for Kubernetes.                        *)
(*                                                                         *)
(* The authorization decision engine (pkg/tobac/tobac.go) is a pure        *)
(* function of a Request; the team directory (pkg/azure, pkg/teams) is     *)
(* the source of the TeamProvider the daemon injects into it.              *)
(*                                                                         *)
(* Go strings are TLA+ strings.  A format string is the sequence of its    *)
(* pieces, each piece either literal text or the verb "%s".                *)
(***************************************************************************)
EXTENDS Integers, Sequences, FiniteSets, TLC

VARIABLES
    \* one evaluation of the decision engine
    request, response, pc,
    \* pkg/teams: the package variables and the goroutine running Sync
    teamList, mutex, syncPc, teams, timerArmed, timerC,
    \* the calls of Get in flight
    getPc, getId, getResult,
    \* history of Sync: consecutive failed refreshes, the snapshot at the first of them,
    \* the snapshot the last store replaced, whether a store has happened, and the error
    \* of the last fetch
    failures, atFailure, replaced, refreshed, lastError,
    \* the clock, the time at which the timer of Sync expires, and the times at which the
    \* last two refresh attempts started
    now, deadline, lastStart, prevStart,
    \* one HTTP request to the webhook: the request, the answer of the Kubernetes API server
    \* should it be asked, what admitCallback and reply returned, the position of serve and
    \* the two counters of pkg/metrics
    httpRequest, kubeAnswer, callback, replied, servePc, Admitted, Denied,
    \* an evaluation of Allowed whose TeamProvider is teams.Get: its local variable team,
    \* and the team lists that were current at its calls of teams.Get
    submittedTeam, snapshots

engineVars == <<request, response, pc>>
syncVars == <<teamList, syncPc, teams, timerArmed, timerC>>
getVars == <<getPc, getId, getResult>>
historyVars == <<failures, atFailure, replaced, refreshed, lastError>>
cacheVars == <<syncVars, mutex, getVars, historyVars>>
clockVars == <<now, deadline, lastStart, prevStart>>
serveVars == <<httpRequest, kubeAnswer, callback, replied, servePc, Admitted, Denied>>
decisionVars == <<submittedTeam, snapshots>>
restVars == <<clockVars, serveVars, decisionVars>>

vars == <<engineVars, cacheVars, restVars>>

(***************************************************************************)
(* Bounds                                                                  *)
(***************************************************************************)
\* longest list of groups a requester carries
MaxGroups == 2
\* calls of Get that may be in flight at once
NumReaders == 2
\* consecutive failed refreshes that are told apart
MaxFailures == 2
\* clock ticks a behaviour of the timed Sync loop is followed for
MaxTime == 6

(***************************************************************************)
(* fmt.Sprintf, restricted to the %s verb and string operands              *)
(***************************************************************************)
VerbS == "%s"

RECURSIVE ExtraArgs(_, _)
ExtraArgs(a, argNum) ==
    IF argNum > Len(a) THEN ""
    ELSE (IF argNum < Len(a) THEN "string=" \o a[argNum] \o ", " ELSE "string=" \o a[argNum])
         \o ExtraArgs(a, argNum + 1)

RECURSIVE doPrintf(_, _, _, _)
doPrintf(format, a, i, argNum) ==
    IF i > Len(format)
    THEN IF argNum < Len(a)
         THEN "%!(EXTRA " \o ExtraArgs(a, argNum + 1) \o ")"
         ELSE ""
    ELSE IF format[i] = VerbS
         THEN IF argNum < Len(a)
              THEN a[argNum + 1] \o doPrintf(format, a, i + 1, argNum + 1)
              ELSE "%!s(MISSING)" \o doPrintf(format, a, i + 1, argNum)
         ELSE format[i] \o doPrintf(format, a, i + 1, argNum)

Sprintf(format, a) == doPrintf(format, a, 1, 0)

(***************************************************************************)
(* pkg/tobac: reasons                                                      *)
(***************************************************************************)
ErrorNotTaggedWithTeamLabel == <<"object is not tagged with a team label">>
ErrorTeamDoesNotExistInAzureAD == <<"team '", VerbS, "' does not exist in Azure AD">>
ErrorExistingTeamDoesNotExistInAzureAD ==
    <<"team '", VerbS, "' on existing resource does not exist in Azure AD">>
ErrorUserHasNoAccessToTeam == <<"user '", VerbS, "' has no access to team '", VerbS, "'">>

SuccessUserIsClusterAdmin == <<"user is cluster administrator through group '", VerbS, "'">>
SuccessUserBelongsToTeam == <<"user belongs to owner team '", VerbS, "'">>
SuccessUserMatchesServiceUserTemplate == <<"user matches service user template">>
SuccessUserMayAnnexateOrphanResource == <<"resource did not have a team label set">>

\* a string constant used as a Reason without formatting
Text(const) == const[1]

(***************************************************************************)
(* pkg/azure: Team                                                         *)
(***************************************************************************)
\* the zero value of azure.Team
ZeroTeam == [AzureUUID |-> "", ID |-> ""]

Valid(team) == team.AzureUUID # "" /\ team.ID # ""

\* strings.ToLower on the directory's mail nicknames
ToLower(s) == IF s = "Foo" THEN "foo" ELSE s

\* azure.Teams, after GroupsFromApplication returned teamGroups without error
RECURSIVE TeamsFrom(_, _, _)
TeamsFrom(teamGroups, i, made) ==
    IF i > Len(teamGroups) THEN made
    ELSE LET teamGroup == teamGroups[i]
             team == [AzureUUID |-> teamGroup.ID, ID |-> ToLower(teamGroup.MailNickname)]
         IN  IF Valid(team)
             THEN TeamsFrom(teamGroups, i + 1,
                            [k \in DOMAIN made \cup {team.ID} |->
                                IF k = team.ID THEN team ELSE made[k]])
             ELSE TeamsFrom(teamGroups, i + 1, made)

\* slip: every group becomes a team, valid or not
TeamsUnvalidated(teamGroups) ==
    [k \in {ToLower(teamGroups[i].MailNickname) : i \in DOMAIN teamGroups} |->
        LET i == CHOOSE j \in DOMAIN teamGroups : ToLower(teamGroups[j].MailNickname) = k
        IN  [AzureUUID |-> teamGroups[i].ID, ID |-> k]]

\* azure.Teams, lines 54-72
Teams(teamGroups) == TeamsFrom(teamGroups, 1, [k \in {} |-> ZeroTeam])

(***************************************************************************)
(* pkg/teams: the cached team list                                         *)
(***************************************************************************)
\* slip: an id that is not a key is answered with a team named after it
GetOrPlaceholder(list, id) ==
    IF id \in DOMAIN list THEN list[id] ELSE [AzureUUID |-> id, ID |-> id]

\* teams.Get: the entry of the team list, the zero Team when the id is not a key
Get(list, id) == IF id \in DOMAIN list THEN list[id] ELSE ZeroTeam

(***************************************************************************)
(* pkg/tobac: the decision engine                                          *)
(***************************************************************************)
\* a nil interface value (metav1.Object) or a nil *Response
Nil == [nil |-> TRUE]

\* an error is the record of its text; a nil error is Nil
Error(text) == [error |-> text]

\* indexing a Go map: the zero value when the key is absent
MapGet(m, key) == IF key \in DOMAIN m THEN m[key] ELSE ""

GetLabels(resource) == resource.Labels

stringInSlice(slice, str) == \E i \in 1..Len(slice) : str = slice[i]

\* slip: strings.HasPrefix(username, allowedUser) in place of the equality
hasServiceUserAccessByPrefix(username, teamID, templates) ==
    \E i \in 1..Len(templates) :
        \E rest \in {"", "-x"} : username = Sprintf(templates[i], <<teamID, teamID>>) \o rest

hasServiceUserAccess(username, teamID, templates) ==
    \E i \in 1..Len(templates) : username = Sprintf(templates[i], <<teamID, teamID>>)

Response(allowed, reason) == [Allowed |-> allowed, Reason |-> reason]

\* slip: only the requester's first group is compared with the administrator groups
ClusterAdminResponseFirstGroupOnly(req) ==
    LET groups == req.UserInfo.Groups
        admins == req.ClusterAdmins
        hits == {j \in 1..Len(admins) : Len(groups) > 0 /\ groups[1] = admins[j]}
    IN  IF hits = {} THEN Nil
        ELSE LET first == CHOOSE j \in hits : \A k \in hits : j <= k
             IN  Response(TRUE, Sprintf(SuccessUserIsClusterAdmin, <<admins[first]>>))

ClusterAdminResponse(req) ==
    LET groups == req.UserInfo.Groups
        admins == req.ClusterAdmins
        hits == {p \in (1..Len(groups)) \X (1..Len(admins)) : groups[p[1]] = admins[p[2]]}
    IN  IF hits = {} THEN Nil
        ELSE LET first == CHOOSE p \in hits :
                              \A q \in hits : p[1] < q[1] \/ (p[1] = q[1] /\ p[2] <= q[2])
             IN  Response(TRUE, Sprintf(SuccessUserIsClusterAdmin, <<admins[first[2]]>>))

\* slip: the empty-label test is missing, so an empty label is looked up like any other
SubmittedCheckNoLabelTest(req) ==
    IF req.SubmittedResource # Nil
    THEN LET teamID == MapGet(GetLabels(req.SubmittedResource), "team")
             team == req.TeamProvider[teamID]
         IN  IF ~Valid(team)
             THEN Response(FALSE, Sprintf(ErrorTeamDoesNotExistInAzureAD, <<teamID>>))
             ELSE Nil
    ELSE Nil

\* slip: the reason names the looked-up team's ID instead of the submitted label
SubmittedCheckReasonFromTeam(req) ==
    IF req.SubmittedResource # Nil
    THEN LET teamID == MapGet(GetLabels(req.SubmittedResource), "team")
             team == req.TeamProvider[teamID]
         IN  IF teamID = ""
             THEN Response(FALSE, Text(ErrorNotTaggedWithTeamLabel))
             ELSE IF ~Valid(team)
             THEN Response(FALSE, Sprintf(ErrorTeamDoesNotExistInAzureAD, <<team.ID>>))
             ELSE Nil
    ELSE Nil

\* Allowed, lines 85-97: the submitted resource must carry the label of a team that exists
SubmittedCheck(req) ==
    IF req.SubmittedResource # Nil
    THEN LET teamID == MapGet(GetLabels(req.SubmittedResource), "team")
             team == req.TeamProvider[teamID]
         IN  IF teamID = ""
             THEN Response(FALSE, Text(ErrorNotTaggedWithTeamLabel))
             ELSE IF ~Valid(team)
             THEN Response(FALSE, Sprintf(ErrorTeamDoesNotExistInAzureAD, <<teamID>>))
             ELSE Nil
    ELSE Nil

\* slip: membership is tested against the group of the submitted team, not of the existing one
ExistingCheckGroupOfSubmitted(req) ==
    IF req.ExistingResource # Nil
    THEN LET existingLabel == MapGet(GetLabels(req.ExistingResource), "team")
             existingTeam == req.TeamProvider[existingLabel]
             serviceUserAccess == hasServiceUserAccess(req.UserInfo.Username, existingTeam.ID,
                                                       req.ServiceUserTemplates)
         IN  IF existingLabel # "" /\ ~Valid(existingTeam)
             THEN Response(FALSE, Sprintf(ErrorExistingTeamDoesNotExistInAzureAD,
                                          <<existingLabel>>))
             ELSE IF existingLabel # ""
                     /\ ~stringInSlice(req.UserInfo.Groups,
                                      req.TeamProvider[IF req.SubmittedResource # Nil
                                                       THEN MapGet(GetLabels(req.SubmittedResource), "team")
                                                       ELSE ""].AzureUUID)
                     /\ ~serviceUserAccess
             THEN Response(FALSE, Sprintf(ErrorUserHasNoAccessToTeam,
                                          <<req.UserInfo.Username, existingTeam.ID>>))
             ELSE IF existingLabel # "" /\ req.SubmittedResource = Nil
             THEN IF serviceUserAccess
                  THEN Response(TRUE, Text(SuccessUserMatchesServiceUserTemplate))
                  ELSE Response(TRUE, Sprintf(SuccessUserBelongsToTeam, <<existingLabel>>))
             ELSE IF req.SubmittedResource = Nil
             THEN Response(TRUE, Text(SuccessUserMayAnnexateOrphanResource))
             ELSE Nil
    ELSE Nil

\* slip: the existing team is not tested for validity
ExistingCheckNoValidity(req) ==
    IF req.ExistingResource # Nil
    THEN LET existingLabel == MapGet(GetLabels(req.ExistingResource), "team")
             existingTeam == req.TeamProvider[existingLabel]
             serviceUserAccess == hasServiceUserAccess(req.UserInfo.Username, existingTeam.ID,
                                                       req.ServiceUserTemplates)
         IN  IF FALSE
             THEN Response(FALSE, Sprintf(ErrorExistingTeamDoesNotExistInAzureAD,
                                          <<existingLabel>>))
             ELSE IF existingLabel # ""
                     /\ ~stringInSlice(req.UserInfo.Groups, existingTeam.AzureUUID)
                     /\ ~serviceUserAccess
             THEN Response(FALSE, Sprintf(ErrorUserHasNoAccessToTeam,
                                          <<req.UserInfo.Username, existingTeam.ID>>))
             ELSE IF existingLabel # "" /\ req.SubmittedResource = Nil
             THEN IF serviceUserAccess
                  THEN Response(TRUE, Text(SuccessUserMatchesServiceUserTemplate))
                  ELSE Response(TRUE, Sprintf(SuccessUserBelongsToTeam, <<existingLabel>>))
             ELSE IF req.SubmittedResource = Nil
             THEN Response(TRUE, Text(SuccessUserMayAnnexateOrphanResource))
             ELSE Nil
    ELSE Nil

\* slip: an existing resource without a team label is checked like a labelled one
ExistingCheckNoOrphanSkip(req) ==
    IF req.ExistingResource # Nil
    THEN LET existingLabel == MapGet(GetLabels(req.ExistingResource), "team")
             existingTeam == req.TeamProvider[existingLabel]
             serviceUserAccess == hasServiceUserAccess(req.UserInfo.Username, existingTeam.ID,
                                                       req.ServiceUserTemplates)
         IN  IF ~Valid(existingTeam)
             THEN Response(FALSE, Sprintf(ErrorExistingTeamDoesNotExistInAzureAD,
                                          <<existingLabel>>))
             ELSE IF TRUE
                     /\ ~stringInSlice(req.UserInfo.Groups, existingTeam.AzureUUID)
                     /\ ~serviceUserAccess
             THEN Response(FALSE, Sprintf(ErrorUserHasNoAccessToTeam,
                                          <<req.UserInfo.Username, existingTeam.ID>>))
             ELSE IF existingLabel # "" /\ req.SubmittedResource = Nil
             THEN IF serviceUserAccess
                  THEN Response(TRUE, Text(SuccessUserMatchesServiceUserTemplate))
                  ELSE Response(TRUE, Sprintf(SuccessUserBelongsToTeam, <<existingLabel>>))
             ELSE IF req.SubmittedResource = Nil
             THEN Response(TRUE, Text(SuccessUserMayAnnexateOrphanResource))
             ELSE Nil
    ELSE Nil

\* slip: a delete of a labelled resource is not decided here and falls through
ExistingCheckDeleteFallsThrough(req) ==
    IF req.ExistingResource # Nil
    THEN LET existingLabel == MapGet(GetLabels(req.ExistingResource), "team")
             existingTeam == req.TeamProvider[existingLabel]
             serviceUserAccess == hasServiceUserAccess(req.UserInfo.Username, existingTeam.ID,
                                                       req.ServiceUserTemplates)
         IN  IF existingLabel # "" /\ ~Valid(existingTeam)
             THEN Response(FALSE, Sprintf(ErrorExistingTeamDoesNotExistInAzureAD,
                                          <<existingLabel>>))
             ELSE IF existingLabel # ""
                     /\ ~stringInSlice(req.UserInfo.Groups, existingTeam.AzureUUID)
                     /\ ~serviceUserAccess
             THEN Response(FALSE, Sprintf(ErrorUserHasNoAccessToTeam,
                                          <<req.UserInfo.Username, existingTeam.ID>>))
             ELSE IF existingLabel # "" /\ req.SubmittedResource = Nil
             THEN Nil
             ELSE IF req.SubmittedResource = Nil
             THEN Response(TRUE, Text(SuccessUserMayAnnexateOrphanResource))
             ELSE Nil
    ELSE Nil

\* slip: a delete of an unlabelled resource is not decided here and falls through
ExistingCheckOrphanDeleteFallsThrough(req) ==
    IF req.ExistingResource # Nil
    THEN LET existingLabel == MapGet(GetLabels(req.ExistingResource), "team")
             existingTeam == req.TeamProvider[existingLabel]
             serviceUserAccess == hasServiceUserAccess(req.UserInfo.Username, existingTeam.ID,
                                                       req.ServiceUserTemplates)
         IN  IF existingLabel # "" /\ ~Valid(existingTeam)
             THEN Response(FALSE, Sprintf(ErrorExistingTeamDoesNotExistInAzureAD,
                                          <<existingLabel>>))
             ELSE IF existingLabel # ""
                     /\ ~stringInSlice(req.UserInfo.Groups, existingTeam.AzureUUID)
                     /\ ~serviceUserAccess
             THEN Response(FALSE, Sprintf(ErrorUserHasNoAccessToTeam,
                                          <<req.UserInfo.Username, existingTeam.ID>>))
             ELSE IF existingLabel # "" /\ req.SubmittedResource = Nil
             THEN IF serviceUserAccess
                  THEN Response(TRUE, Text(SuccessUserMatchesServiceUserTemplate))
                  ELSE Response(TRUE, Sprintf(SuccessUserBelongsToTeam, <<existingLabel>>))
             ELSE Nil
    ELSE Nil

\* Allowed, lines 99-131: access to the original resource, and the verdict on deletes
ExistingCheck(req) ==
    IF req.ExistingResource # Nil
    THEN LET existingLabel == MapGet(GetLabels(req.ExistingResource), "team")
             existingTeam == req.TeamProvider[existingLabel]
             serviceUserAccess == hasServiceUserAccess(req.UserInfo.Username, existingTeam.ID,
                                                       req.ServiceUserTemplates)
         IN  IF existingLabel # "" /\ ~Valid(existingTeam)
             THEN Response(FALSE, Sprintf(ErrorExistingTeamDoesNotExistInAzureAD,
                                          <<existingLabel>>))
             ELSE IF existingLabel # ""
                     /\ ~stringInSlice(req.UserInfo.Groups, existingTeam.AzureUUID)
                     /\ ~serviceUserAccess
             THEN Response(FALSE, Sprintf(ErrorUserHasNoAccessToTeam,
                                          <<req.UserInfo.Username, existingTeam.ID>>))
             ELSE IF existingLabel # "" /\ req.SubmittedResource = Nil
             THEN IF serviceUserAccess
                  THEN Response(TRUE, Text(SuccessUserMatchesServiceUserTemplate))
                  ELSE Response(TRUE, Sprintf(SuccessUserBelongsToTeam, <<existingLabel>>))
             ELSE IF req.SubmittedResource = Nil
             THEN Response(TRUE, Text(SuccessUserMayAnnexateOrphanResource))
             ELSE Nil
    ELSE Nil

\* slip: the operands of the default deny reason are swapped
FinalCheckOperandsSwapped(req) ==
    LET teamID == IF req.SubmittedResource # Nil
                  THEN MapGet(GetLabels(req.SubmittedResource), "team") ELSE ""
        team == IF req.SubmittedResource # Nil THEN req.TeamProvider[teamID] ELSE ZeroTeam
        existingLabel == IF req.ExistingResource # Nil
                         THEN MapGet(GetLabels(req.ExistingResource), "team") ELSE ""
    IN  IF stringInSlice(req.UserInfo.Groups, team.AzureUUID)
        THEN IF req.ExistingResource # Nil /\ existingLabel = ""
             THEN Response(TRUE, Text(SuccessUserMayAnnexateOrphanResource))
             ELSE Response(TRUE, Sprintf(SuccessUserBelongsToTeam, <<team.ID>>))
        ELSE IF hasServiceUserAccess(req.UserInfo.Username, team.ID, req.ServiceUserTemplates)
        THEN Response(TRUE, Text(SuccessUserMatchesServiceUserTemplate))
        ELSE Response(FALSE, Sprintf(ErrorUserHasNoAccessToTeam,
                                     <<teamID, req.UserInfo.Username>>))

\* slip: the service user templates are not tried for the submitted team
FinalCheckGroupOnly(req) ==
    LET teamID == IF req.SubmittedResource # Nil
                  THEN MapGet(GetLabels(req.SubmittedResource), "team") ELSE ""
        team == IF req.SubmittedResource # Nil THEN req.TeamProvider[teamID] ELSE ZeroTeam
        existingLabel == IF req.ExistingResource # Nil
                         THEN MapGet(GetLabels(req.ExistingResource), "team") ELSE ""
    IN  IF stringInSlice(req.UserInfo.Groups, team.AzureUUID)
        THEN IF req.ExistingResource # Nil /\ existingLabel = ""
             THEN Response(TRUE, Text(SuccessUserMayAnnexateOrphanResource))
             ELSE Response(TRUE, Sprintf(SuccessUserBelongsToTeam, <<team.ID>>))
        ELSE Response(FALSE, Sprintf(ErrorUserHasNoAccessToTeam,
                                     <<req.UserInfo.Username, teamID>>))

\* slip: the service user templates are tried before the groups
FinalCheckTemplateFirst(req) ==
    LET teamID == IF req.SubmittedResource # Nil
                  THEN MapGet(GetLabels(req.SubmittedResource), "team") ELSE ""
        team == IF req.SubmittedResource # Nil THEN req.TeamProvider[teamID] ELSE ZeroTeam
        existingLabel == IF req.ExistingResource # Nil
                         THEN MapGet(GetLabels(req.ExistingResource), "team") ELSE ""
    IN  IF hasServiceUserAccess(req.UserInfo.Username, team.ID, req.ServiceUserTemplates)
        THEN Response(TRUE, Text(SuccessUserMatchesServiceUserTemplate))
        ELSE IF stringInSlice(req.UserInfo.Groups, team.AzureUUID)
        THEN IF req.ExistingResource # Nil /\ existingLabel = ""
             THEN Response(TRUE, Text(SuccessUserMayAnnexateOrphanResource))
             ELSE Response(TRUE, Sprintf(SuccessUserBelongsToTeam, <<team.ID>>))
        ELSE Response(FALSE, Sprintf(ErrorUserHasNoAccessToTeam,
                                     <<req.UserInfo.Username, teamID>>))

\* slip: the default deny is built with Allowed: true
FinalCheckDenyAllowed(req) ==
    LET teamID == IF req.SubmittedResource # Nil
                  THEN MapGet(GetLabels(req.SubmittedResource), "team") ELSE ""
        team == IF req.SubmittedResource # Nil THEN req.TeamProvider[teamID] ELSE ZeroTeam
        existingLabel == IF req.ExistingResource # Nil
                         THEN MapGet(GetLabels(req.ExistingResource), "team") ELSE ""
    IN  IF stringInSlice(req.UserInfo.Groups, team.AzureUUID)
        THEN IF req.ExistingResource # Nil /\ existingLabel = ""
             THEN Response(TRUE, Text(SuccessUserMayAnnexateOrphanResource))
             ELSE Response(TRUE, Sprintf(SuccessUserBelongsToTeam, <<team.ID>>))
        ELSE IF hasServiceUserAccess(req.UserInfo.Username, team.ID, req.ServiceUserTemplates)
        THEN Response(TRUE, Text(SuccessUserMatchesServiceUserTemplate))
        ELSE Response(TRUE, Sprintf(ErrorUserHasNoAccessToTeam,
                                     <<req.UserInfo.Username, teamID>>))

\* Allowed, lines 133-147: membership of the submitted team, service users, default deny.
\* teamID, team and existingLabel keep their zero values where the earlier blocks
\* did not assign them.
FinalCheck(req) ==
    LET teamID == IF req.SubmittedResource # Nil
                  THEN MapGet(GetLabels(req.SubmittedResource), "team") ELSE ""
        team == IF req.SubmittedResource # Nil THEN req.TeamProvider[teamID] ELSE ZeroTeam
        existingLabel == IF req.ExistingResource # Nil
                         THEN MapGet(GetLabels(req.ExistingResource), "team") ELSE ""
    IN  IF stringInSlice(req.UserInfo.Groups, team.AzureUUID)
        THEN IF req.ExistingResource # Nil /\ existingLabel = ""
             THEN Response(TRUE, Text(SuccessUserMayAnnexateOrphanResource))
             ELSE Response(TRUE, Sprintf(SuccessUserBelongsToTeam, <<team.ID>>))
        ELSE IF hasServiceUserAccess(req.UserInfo.Username, team.ID, req.ServiceUserTemplates)
        THEN Response(TRUE, Text(SuccessUserMatchesServiceUserTemplate))
        ELSE Response(FALSE, Sprintf(ErrorUserHasNoAccessToTeam,
                                     <<req.UserInfo.Username, teamID>>))

Allowed(req) ==
    IF ClusterAdminResponse(req) # Nil THEN ClusterAdminResponse(req)
    ELSE IF SubmittedCheck(req) # Nil THEN SubmittedCheck(req)
    ELSE IF ExistingCheck(req) # Nil THEN ExistingCheck(req)
    ELSE FinalCheck(req)

(***************************************************************************)
(* Requests                                                                *)
(***************************************************************************)
SeqsUpTo(S, n) == UNION {[1..k -> S] : k \in 0..n}

\* values of the team label
LabelValues == {"", "foo", "baz", "does-not-exist"}

\* tobac_test.go: emptyResource and resourceWithTeam
emptyResource == [Labels |-> [k \in {} |-> ""]]
resourceWithTeam(team) == [Labels |-> [k \in {"team"} |-> team]]

Views == {Nil, emptyResource} \cup {resourceWithTeam(l) : l \in LabelValues}

\* tobac_test.go: the team providers of the tests
emptyTeamProvider == [team \in LabelValues |-> ZeroTeam]
mockedTeamProvider ==
    [team \in LabelValues |->
        IF team = "does-not-exist" THEN ZeroTeam ELSE [AzureUUID |-> team, ID |-> team]]

\* the groups the directory returns for the team membership application
DirectoryGroups ==
    << [ID |-> "uuid-foo", MailNickname |-> "Foo"],
       [ID |-> "uuid-baz", MailNickname |-> "baz"],
       [ID |-> "uuid-none", MailNickname |-> ""] >>

\* main.go: TeamProvider is teams.Get, here on the snapshot of one refresh
directoryTeamProvider == [team \in LabelValues |-> Get(Teams(DirectoryGroups), team)]

TeamProviders == {emptyTeamProvider, mockedTeamProvider, directoryTeamProvider}

\* service user templates of the tests and of DefaultConfig
TestTemplate == <<"system:serviceaccounts:", VerbS, ":serviceuser-", VerbS>>
DefaultTemplate == <<"system:serviceaccount:default:serviceuser-", VerbS>>

TemplateLists == { <<>>, <<TestTemplate>>, <<DefaultTemplate>>,
                   <<DefaultTemplate, TestTemplate>> }

ClusterAdminLists == { <<>>, <<"cluster-admin">>, <<"cluster-admin", "foo">> }

GroupNames == {"", "cluster-admin", "foo", "uuid-foo", "uuid-baz"}

Usernames == { "", "bar",
               "system:serviceaccounts:foo:serviceuser-foo",
               "system:serviceaccounts:baz:serviceuser-baz",
               "system:serviceaccount:default:serviceuser-foo",
               "system:serviceaccount:default:serviceuser-foo%!(EXTRA string=foo)",
               "system:serviceaccounts:foo:serviceuser-fo",
               "system:serviceaccounts:foo:serviceuser-foo-x" }

Requests ==
    [ UserInfo : [Username : Usernames, Groups : SeqsUpTo(GroupNames, MaxGroups)],
      ExistingResource : Views,
      SubmittedResource : Views,
      ClusterAdmins : ClusterAdminLists,
      ServiceUserTemplates : TemplateLists,
      TeamProvider : TeamProviders ]

(***************************************************************************)
(* main.go: how admitCallback builds the request                           *)
(***************************************************************************)
\* decode of an empty raw object: a nil *KubernetesResource, which stored in the
\* metav1.Object field of the request is an interface value different from nil
NilPointer == [nilptr |-> TRUE]

\* what decode returns for the old and the new object of a review
DecodedViews == (Views \ {Nil}) \cup {NilPointer}

DecodedRequests ==
    [ UserInfo : [Username : Usernames, Groups : SeqsUpTo(GroupNames, MaxGroups)],
      ExistingResource : DecodedViews,
      SubmittedResource : DecodedViews,
      ClusterAdmins : ClusterAdminLists,
      ServiceUserTemplates : TemplateLists,
      TeamProvider : TeamProviders ]

\* slip: the nil pointers are left in the request
NilChecksMissing(req) == req

\* admitCallback, lines 262-270: nil pointers become nil interface values
NilChecks(req) ==
    [req EXCEPT !.ExistingResource = IF @ = NilPointer THEN Nil ELSE @,
                !.SubmittedResource = IF @ = NilPointer THEN Nil ELSE @]

(***************************************************************************)
(* The engine applied to one request                                       *)
(***************************************************************************)
\* the outcome of a run-time panic in place of a Response
Panic == [panic |-> TRUE]

\* Allowed calls GetLabels through a nil pointer: at line 87 for the submitted resource,
\* at line 101 for the existing one when the submitted one did not end the evaluation
Panics(req) ==
    /\ ClusterAdminResponse(req) = Nil
    /\ \/ req.SubmittedResource = NilPointer
       \/ SubmittedCheck(req) = Nil /\ req.ExistingResource = NilPointer

\* pkg/teams at program start: teamList is a nil map, the mutex is free, Sync has been
\* launched and no Get is in flight
Readers == 1..NumReaders

NilMap == [k \in {} |-> ZeroTeam]

CacheInit ==
    /\ teamList = NilMap
    /\ mutex = {}
    /\ syncPc = "new"
    /\ teams = NilMap
    /\ timerArmed = FALSE
    /\ timerC = 0
    /\ getPc = [r \in Readers |-> "idle"]
    /\ getId = [r \in Readers |-> ""]
    /\ getResult = [r \in Readers |-> ZeroTeam]
    /\ failures = 0
    /\ atFailure = NilMap
    /\ replaced = NilMap
    /\ refreshed = FALSE
    /\ lastError = Nil

\* no attempt has started and no timer exists
ClockInit ==
    /\ now = 0
    /\ deadline = 0
    /\ lastStart = -1
    /\ prevStart = -1

\* no HTTP request is being served
ServeIdle ==
    /\ httpRequest = Nil
    /\ kubeAnswer = Nil
    /\ callback = Nil
    /\ replied = Nil
    /\ servePc = "idle"
    /\ Admitted = 0
    /\ Denied = 0

\* no team has been looked up
DecisionIdle ==
    /\ submittedTeam = ZeroTeam
    /\ snapshots = <<>>

RestInit == ClockInit /\ ServeIdle /\ DecisionIdle

Init ==
    /\ RestInit
    /\ \E decoded \in DecodedRequests : request = NilChecks(decoded)
    /\ response = Nil
    /\ pc = "call"
    /\ CacheInit

\* response := tobac.Allowed(req)
Evaluate ==
    /\ pc = "call"
    /\ response' = IF Panics(request) THEN Panic ELSE Allowed(request)
    /\ pc' = "done"
    /\ UNCHANGED <<request, cacheVars, restVars>>

Next == Evaluate

Spec == Init /\ [][Next]_vars

TypeOK ==
    /\ request \in Requests
    /\ pc \in {"call", "done"}
    /\ pc = "done" => response.Allowed \in BOOLEAN

(***************************************************************************)
(* pkg/teams: Sync                                                         *)
(***************************************************************************)
\* what the directory may hold when a refresh reads it
DirectoryGroupsLater == << [ID |-> "uuid-foo", MailNickname |-> "Foo"] >>

Directories == {DirectoryGroups, DirectoryGroupsLater}

\* what the Graph API answers during one call of azure.Teams: the listing of the role
\* assignments fails or gives the principals, and the fetch of a group fails or gives it
Principals(groups, failing) ==
    << [PrincipalType |-> "User", Group |-> [ID |-> "uuid-user", MailNickname |-> "user"],
        Fails |-> FALSE] >>
        \o [i \in 1..Len(groups) |->
               [PrincipalType |-> "Group", Group |-> groups[i], Fails |-> (i = failing)]]

DirectoryAnswers ==
    {[listFails |-> TRUE, principals |-> <<>>]}
        \cup UNION {{[listFails |-> FALSE, principals |-> Principals(groups, failing)] :
                        failing \in 0..Len(groups)} : groups \in Directories}

\* slip: a group that cannot be fetched is left out
RECURSIVE GroupsFromSkipsFailed(_, _, _)
GroupsFromSkipsFailed(servicePrincipals, i, groups) ==
    IF i > Len(servicePrincipals) THEN [groups |-> groups, err |-> Nil]
    ELSE IF servicePrincipals[i].PrincipalType # "Group" \/ servicePrincipals[i].Fails
    THEN GroupsFromSkipsFailed(servicePrincipals, i + 1, groups)
    ELSE GroupsFromSkipsFailed(servicePrincipals, i + 1,
                               Append(groups, servicePrincipals[i].Group))

\* graphapi.go, lines 48-60: the loop of GroupsFromApplication
RECURSIVE GroupsFrom(_, _, _)
GroupsFrom(servicePrincipals, i, groups) ==
    IF i > Len(servicePrincipals) THEN [groups |-> groups, err |-> Nil]
    ELSE IF servicePrincipals[i].PrincipalType # "Group"
    THEN GroupsFrom(servicePrincipals, i + 1, groups)
    ELSE IF servicePrincipals[i].Fails
    THEN [groups |-> <<>>,
          err |-> Error("recurse into groups: " \o "404 Not Found: ")]
    ELSE GroupsFrom(servicePrincipals, i + 1, Append(groups, servicePrincipals[i].Group))

\* graphapi.go, lines 41-61
GroupsFromApplication(answer) ==
    IF answer.listFails
    THEN [groups |-> <<>>,
          err |-> Error("get parent group: " \o "503 Service Unavailable: ")]
    ELSE GroupsFrom(answer.principals, 1, <<>>)

\* azure.Teams, lines 45-73: no map when GroupsFromApplication returns an error
azureTeams(answer) ==
    LET fetched == GroupsFromApplication(answer)
    IN  IF fetched.err # Nil
        THEN [teams |-> NilMap, err |-> fetched.err]
        ELSE [teams |-> Teams(fetched.groups), err |-> Nil]

\* the ids Get is called with
GetIds == {"foo", "baz"}

Min(a, b) == IF a < b THEN a ELSE b

\* line 17: timer := time.NewTimer(interval)
SyncNewTimer ==
    /\ syncPc = "new"
    /\ timerArmed' = TRUE
    /\ syncPc' = "reset"
    /\ UNCHANGED <<engineVars, restVars, teamList, teams, timerC, mutex, getVars, historyVars>>

\* line 20: timer.Reset(interval); the channel keeps what it holds
SyncReset ==
    /\ syncPc = "reset"
    /\ timerArmed' = TRUE
    /\ syncPc' = "fetch"
    /\ UNCHANGED <<engineVars, restVars, teamList, teams, timerC, mutex, getVars, historyVars>>

\* lines 22-24: azure.Teams returns the team map of the directory
SyncFetch ==
    /\ syncPc = "fetch"
    /\ \E answer \in DirectoryAnswers :
           /\ azureTeams(answer).err = Nil
           /\ teams' = azureTeams(answer).teams
    /\ lastError' = Nil
    /\ syncPc' = "lock"
    /\ failures' = 0
    /\ atFailure' = NilMap
    /\ UNCHANGED <<engineVars, restVars, teamList, timerArmed, timerC, mutex, getVars,
                   replaced, refreshed>>

\* slip: the result of azure.Teams is stored before the error is looked at
SyncFetchFailedStoresResult ==
    /\ syncPc = "fetch"
    /\ teams' = NilMap
    /\ lastError' = Error("get parent group: 503 Service Unavailable: ")
    /\ teamList' = NilMap
    /\ syncPc' = "waitFailed"
    /\ failures' = Min(failures + 1, MaxFailures)
    /\ atFailure' = IF failures = 0 THEN teamList ELSE atFailure
    /\ UNCHANGED <<engineVars, restVars, timerArmed, timerC, mutex, getVars, replaced, refreshed>>

\* slip: the error ends Sync (return in place of continue)
SyncFetchFailedReturns ==
    /\ syncPc = "fetch"
    /\ teams' = NilMap
    /\ lastError' = Error("get parent group: 503 Service Unavailable: ")
    /\ syncPc' = "returned"
    /\ failures' = Min(failures + 1, MaxFailures)
    /\ atFailure' = IF failures = 0 THEN teamList ELSE atFailure
    /\ UNCHANGED <<engineVars, restVars, teamList, timerArmed, timerC, mutex, getVars,
                   replaced, refreshed>>

\* lines 22-27: azure.Teams returns an error (and a nil map); the error is logged
SyncFetchFailed ==
    /\ syncPc = "fetch"
    /\ \E answer \in DirectoryAnswers :
           /\ azureTeams(answer).err # Nil
           /\ teams' = azureTeams(answer).teams
           /\ lastError' = azureTeams(answer).err
    /\ syncPc' = "waitFailed"
    /\ failures' = Min(failures + 1, MaxFailures)
    /\ atFailure' = IF failures = 0 THEN teamList ELSE atFailure
    /\ UNCHANGED <<engineVars, restVars, teamList, timerArmed, timerC, mutex, getVars,
                   replaced, refreshed>>

\* line 29: mutex.Lock(); the mutex is the set of its holders, the goroutine of Sync
\* being 0 and a Get in flight its reader
SyncLock ==
    /\ syncPc = "lock"
    /\ mutex = {}
    /\ mutex' = {0}
    /\ syncPc' = "store"
    /\ UNCHANGED <<engineVars, restVars, teamList, teams, timerArmed, timerC, getVars, historyVars>>

\* slip: the fetched teams are added to the team list, which keeps its other entries
SyncStoreMerges ==
    /\ syncPc = "store"
    /\ teamList' = [k \in DOMAIN teams \cup DOMAIN teamList |->
                        IF k \in DOMAIN teams THEN teams[k] ELSE teamList[k]]
    /\ replaced' = teamList
    /\ refreshed' = TRUE
    /\ syncPc' = "unlock"
    /\ UNCHANGED <<engineVars, restVars, teams, timerArmed, timerC, mutex, getVars,
                   failures, atFailure, lastError>>

\* line 30: teamList = teams
SyncStore ==
    /\ syncPc = "store"
    /\ teamList' = teams
    /\ replaced' = teamList
    /\ refreshed' = TRUE
    /\ syncPc' = "unlock"
    /\ UNCHANGED <<engineVars, restVars, teams, timerArmed, timerC, mutex, getVars,
                   failures, atFailure, lastError>>

\* slip: Sync keeps the mutex after the store
SyncUnlockSkipped ==
    /\ syncPc = "unlock"
    /\ syncPc' = "wait"
    /\ UNCHANGED <<engineVars, restVars, teamList, teams, timerArmed, timerC, mutex, getVars,
                   historyVars>>

\* lines 31-32: mutex.Unlock(), and the count is logged
SyncUnlock ==
    /\ syncPc = "unlock"
    /\ mutex' = mutex \ {0}
    /\ syncPc' = "wait"
    /\ UNCHANGED <<engineVars, restVars, teamList, teams, timerArmed, timerC, getVars, historyVars>>

\* lines 26-27 and 33: <-timer.C, then the next turn of the loop
SyncWait ==
    /\ syncPc \in {"wait", "waitFailed"}
    /\ timerC = 1
    /\ timerC' = 0
    /\ syncPc' = "reset"
    /\ UNCHANGED <<engineVars, restVars, teamList, teams, timerArmed, mutex, getVars, historyVars>>

\* the runtime: the interval has passed and the timer sends on its channel of capacity one
TimerFire ==
    /\ timerArmed
    /\ timerArmed' = FALSE
    /\ timerC' = 1
    /\ UNCHANGED <<engineVars, restVars, teamList, syncPc, teams, mutex, getVars, historyVars>>

(***************************************************************************)
(* pkg/teams: Get, called by the requests being handled                    *)
(***************************************************************************)
\* a request handler calls teams.Get(id)
GetCall(r) ==
    /\ getPc[r] = "idle"
    /\ \E id \in GetIds : getId' = [getId EXCEPT ![r] = id]
    /\ getPc' = [getPc EXCEPT ![r] = "lock"]
    /\ UNCHANGED <<engineVars, restVars, syncVars, mutex, getResult, historyVars>>

\* slip: Get does not wait for the mutex
GetLockNoWait(r) ==
    /\ getPc[r] = "lock"
    /\ mutex' = mutex \cup {r}
    /\ getPc' = [getPc EXCEPT ![r] = "read"]
    /\ UNCHANGED <<engineVars, restVars, syncVars, getId, getResult, historyVars>>

\* line 39: mutex.Lock()
GetLock(r) ==
    /\ getPc[r] = "lock"
    /\ mutex = {}
    /\ mutex' = {r}
    /\ getPc' = [getPc EXCEPT ![r] = "read"]
    /\ UNCHANGED <<engineVars, restVars, syncVars, getId, getResult, historyVars>>

\* line 41: the result is teamList[id]
GetRead(r) ==
    /\ getPc[r] = "read"
    /\ getResult' = [getResult EXCEPT ![r] = Get(teamList, getId[r])]
    /\ getPc' = [getPc EXCEPT ![r] = "unlock"]
    /\ UNCHANGED <<engineVars, restVars, syncVars, mutex, getId, historyVars>>

\* line 40: the deferred mutex.Unlock(), and the return to the caller
GetUnlock(r) ==
    /\ getPc[r] = "unlock"
    /\ mutex' = mutex \ {r}
    /\ getPc' = [getPc EXCEPT ![r] = "idle"]
    /\ getId' = [getId EXCEPT ![r] = ""]
    /\ getResult' = [getResult EXCEPT ![r] = ZeroTeam]
    /\ UNCHANGED <<engineVars, restVars, syncVars, historyVars>>

\* the daemon: no evaluation of the engine is followed here
SyncInit ==
    /\ request = Nil
    /\ response = Nil
    /\ pc = "idle"
    /\ CacheInit
    /\ RestInit

SyncNext ==
    \/ SyncNewTimer
    \/ SyncReset
    \/ SyncFetch
    \/ SyncFetchFailed
    \/ SyncLock
    \/ SyncStore
    \/ SyncUnlock
    \/ SyncWait
    \/ TimerFire
    \/ \E r \in Readers : GetCall(r)
    \/ \E r \in Readers : GetLock(r)
    \/ \E r \in Readers : GetRead(r)
    \/ \E r \in Readers : GetUnlock(r)

SyncSpec == SyncInit /\ [][SyncNext]_vars

\* the goroutine of Sync and the handlers run whenever they can; a goroutine waiting in
\* mutex.Lock is handed the mutex in the end, the fetch returns within its timeout and
\* the timer fires
LiveSyncSpec ==
    /\ SyncSpec
    /\ WF_vars(SyncNewTimer)
    /\ WF_vars(SyncReset)
    /\ WF_vars(SyncFetch \/ SyncFetchFailed)
    /\ SF_vars(SyncLock)
    /\ WF_vars(SyncStore)
    /\ WF_vars(SyncUnlock)
    /\ WF_vars(SyncWait)
    /\ WF_vars(TimerFire)
    /\ \A r \in Readers : SF_vars(GetLock(r)) /\ WF_vars(GetRead(r)) /\ WF_vars(GetUnlock(r))

\* the handlers and a Sync that holds the mutex run whenever they can and a goroutine
\* waiting in mutex.Lock is handed the mutex in the end; nothing is asked of the fetch
\* and of the timer, which may take forever
HandlerLiveSpec ==
    /\ SyncSpec
    /\ WF_vars(SyncStore)
    /\ WF_vars(SyncUnlock)
    /\ \A r \in Readers : SF_vars(GetLock(r)) /\ WF_vars(GetRead(r)) /\ WF_vars(GetUnlock(r))

(***************************************************************************)
(* pkg/teams: Sync with the clock.  Time passes between any two steps of   *)
(* the goroutine; the timer of Go 1.11 (Dockerfile) sends on a channel of  *)
(* capacity one when it expires, and Reset leaves the channel as it is.    *)
(***************************************************************************)
\* the interval Sync is called with, in clock ticks
Interval == 2

\* time passes
Tick ==
    /\ now < MaxTime
    /\ now' = now + 1
    /\ UNCHANGED <<engineVars, cacheVars, serveVars, decisionVars, deadline, lastStart, prevStart>>

\* line 17: timer := time.NewTimer(interval)
TimedNewTimer ==
    /\ syncPc = "new"
    /\ timerArmed' = TRUE
    /\ deadline' = now + Interval
    /\ syncPc' = "reset"
    /\ UNCHANGED <<engineVars, serveVars, decisionVars, teamList, teams, timerC, mutex, getVars,
                   historyVars, now, lastStart, prevStart>>

\* lines 20-23: timer.Reset(interval) and the start of a refresh attempt
TimedReset ==
    /\ syncPc = "reset"
    /\ timerArmed' = TRUE
    /\ deadline' = now + Interval
    /\ prevStart' = lastStart
    /\ lastStart' = now
    /\ syncPc' = "fetch"
    /\ UNCHANGED <<engineVars, serveVars, decisionVars, teamList, teams, timerC, mutex, getVars,
                   historyVars, now>>

\* the runtime: the timer has expired and sends on its channel
TimedTimerFire ==
    /\ timerArmed
    /\ now >= deadline
    /\ timerArmed' = FALSE
    /\ timerC' = 1
    /\ UNCHANGED <<engineVars, restVars, teamList, syncPc, teams, mutex, getVars, historyVars>>

TimedSyncNext ==
    \/ Tick
    \/ TimedNewTimer
    \/ TimedReset
    \/ TimedTimerFire
    \/ SyncFetch
    \/ SyncFetchFailed
    \/ SyncLock
    \/ SyncStore
    \/ SyncUnlock
    \/ SyncWait

TimedSyncSpec == SyncInit /\ [][TimedSyncNext]_vars

(***************************************************************************)
(* Allowed with teams.Get as TeamProvider, while Sync runs                 *)
(***************************************************************************)
\* the answers of teams.Get on a team list
Answers(list) == [id \in LabelValues |-> Get(list, id)]

\* the requests being decided; TeamProvider is teams.Get, and the field holds no answers
DecisionRequests ==
    [ UserInfo : [Username : {"bar"},
                  Groups : {<<>>, <<"cluster-admin">>, <<"uuid-foo">>, <<"uuid-foo", "uuid-baz">>}],
      ExistingResource : {Nil, emptyResource, resourceWithTeam("foo"), resourceWithTeam("baz")},
      SubmittedResource : {Nil, resourceWithTeam(""), resourceWithTeam("foo"),
                           resourceWithTeam("baz")},
      ClusterAdmins : {<<"cluster-admin">>},
      ServiceUserTemplates : {<<>>},
      TeamProvider : {emptyTeamProvider} ]

DecisionInit ==
    /\ request \in DecisionRequests
    /\ response = Nil
    /\ pc = "call"
    /\ CacheInit
    /\ RestInit

\* Allowed, lines 80-97: the admin override and the submitted resource; the call of
\* teams.Get at line 93 takes the mutex, reads the team list and releases the mutex
DecideSubmitted ==
    LET teamID == IF request.SubmittedResource # Nil
                  THEN MapGet(GetLabels(request.SubmittedResource), "team") ELSE ""
        looksUp == ClusterAdminResponse(request) = Nil /\ teamID # ""
        req == [request EXCEPT !.TeamProvider = Answers(teamList)]
    IN  /\ pc = "call"
        /\ looksUp => mutex = {}
        /\ submittedTeam' = IF looksUp THEN Get(teamList, teamID) ELSE ZeroTeam
        /\ snapshots' = IF looksUp THEN Append(snapshots, teamList) ELSE snapshots
        /\ IF ClusterAdminResponse(req) # Nil
           THEN response' = ClusterAdminResponse(req) /\ pc' = "done"
           ELSE IF SubmittedCheck(req) # Nil
           THEN response' = SubmittedCheck(req) /\ pc' = "done"
           ELSE response' = response /\ pc' = "existing"
        /\ UNCHANGED <<request, cacheVars, clockVars, serveVars>>

\* Allowed, lines 99-147: the existing resource, with the call of teams.Get at line 107,
\* and the final check, which reads the variable team
DecideExisting ==
    LET teamID == IF request.SubmittedResource # Nil
                  THEN MapGet(GetLabels(request.SubmittedResource), "team") ELSE ""
        existingLabel == IF request.ExistingResource # Nil
                         THEN MapGet(GetLabels(request.ExistingResource), "team") ELSE ""
        looksUp == existingLabel # ""
        req == [request EXCEPT !.TeamProvider = Answers(teamList)]
        final == [request EXCEPT !.TeamProvider =
                      [id \in LabelValues |-> IF id = teamID THEN submittedTeam ELSE ZeroTeam]]
    IN  /\ pc = "existing"
        /\ looksUp => mutex = {}
        /\ snapshots' = IF looksUp THEN Append(snapshots, teamList) ELSE snapshots
        /\ response' = IF ExistingCheck(req) # Nil THEN ExistingCheck(req) ELSE FinalCheck(final)
        /\ pc' = "done"
        /\ UNCHANGED <<request, cacheVars, clockVars, serveVars, submittedTeam>>

DecisionNext ==
    \/ DecideSubmitted
    \/ DecideExisting
    \/ SyncNewTimer
    \/ SyncReset
    \/ SyncFetch
    \/ SyncFetchFailed
    \/ SyncLock
    \/ SyncStore
    \/ SyncUnlock
    \/ SyncWait
    \/ TimerFire

DecisionSpec == DecisionInit /\ [][DecisionNext]_vars

(***************************************************************************)
(* main.go: serve, reply and admitCallback                                 *)
(*                                                                         *)
(* The error texts of the model hold no formatting verbs.                  *)
(***************************************************************************)
\* the raw bytes of an object of the review: none, bytes that are not JSON, or the JSON
\* of a resource
RawEmpty == [kind |-> "empty"]
RawInvalid == [kind |-> "invalid"]
RawJSON(view) == [kind |-> "json", view |-> view]
RawObjects == {RawEmpty, RawInvalid, RawJSON(emptyResource), RawJSON(resourceWithTeam("foo"))}

\* v1beta1.AdmissionRequest, the fields admitCallback and ObjectFromAdmissionRequest read
AdmissionRequests ==
    [ UID : {"uid-1"},
      UserInfo : [Username : {"bar"}, Groups : {<<>>, <<"cluster-admin">>, <<"uuid-foo">>}],
      OldObject : RawObjects,
      Object : RawObjects,
      Resource : {"pods", "deployments"},
      SubResource : {"", "exec"},
      Name : {"", "app"} ]

\* what json.Decoder.Decode makes of the body: a syntax error leaves the review empty, a
\* type error is returned after the fields that fit were filled in
Bodies ==
    {[kind |-> "syntax", Request |-> Nil]}
        \cup [kind : {"type", "ok"}, Request : AdmissionRequests]
        \cup {[kind |-> "ok", Request |-> Nil]}

HTTPRequests ==
    [ ContentType : {"application/json", "text/plain"},
      ReadError : BOOLEAN,
      Body : Bodies ]

\* what the Kubernetes API server answers to the Get of kubeclient
KubeAnswers ==
    {[obj |-> Nil, err |-> Error("the server could not find the requested resource")]}
        \cup {[obj |-> view, err |-> Nil] : view \in {emptyResource, resourceWithTeam("foo")}}

\* the configuration of the daemon
ConfigClusterAdmins == <<"cluster-admin">>
ConfigServiceUserTemplates == <<DefaultTemplate>>

\* main.go, lines 193-200
genericErrorResponse(format, a) ==
    [Allowed |-> FALSE, Message |-> Sprintf(format, a), UID |-> ""]

\* main.go, lines 202-215
decode(raw) ==
    IF raw.kind = "empty" THEN [k |-> NilPointer, err |-> Nil]
    ELSE IF raw.kind = "invalid"
    THEN [k |-> NilPointer,
          err |-> Error("while decoding Kubernetes resource: " \o "unexpected end of JSON input")]
    ELSE [k |-> raw.view, err |-> Nil]

\* kubeclient.go, lines 32-45
ObjectFromAdmissionRequest(answer, req) ==
    IF Len(req.Name) = 0
    THEN [obj |-> Nil, err |-> Error("resource name must be specified")]
    ELSE answer

\* slip: a failed lookup is ignored for every requester
ResolveIgnoresError(req, admission, answer) ==
    LET e == ObjectFromAdmissionRequest(answer, admission)
    IN  IF e.err # Nil
        THEN [req |-> req, err |-> Nil]
        ELSE [req |-> [req EXCEPT !.ExistingResource = e.obj], err |-> Nil]

\* admitCallback, lines 278-294 within the test of line 278: the object is looked up in
\* the cluster
Resolve(req, admission, answer) ==
    LET e == ObjectFromAdmissionRequest(answer, admission)
    IN  IF e.err # Nil
        THEN IF ClusterAdminResponse(req) = Nil
             THEN [req |-> req, err |-> Error("while retrieving resource: " \o e.err.error)]
             ELSE [req |-> req, err |-> Nil]
        ELSE [req |-> [req EXCEPT !.ExistingResource = e.obj], err |-> Nil]

\* admitCallback, lines 257-260, applied to a decoded object
ExecRule(admission, k) ==
    IF admission.Resource = "pods" /\ admission.SubResource = "exec" THEN NilPointer ELSE k

\* main.go, lines 217-325; provider is teams.Get
admitCallback(ar, answer, provider) ==
    IF ar.Request = Nil
    THEN [resp |-> Nil, err |-> Error("admission review request is empty")]
    ELSE
    LET admission == ar.Request
        old == decode(admission.OldObject)
        new == decode(admission.Object)
        previous == ExecRule(admission, old.k)
        resource == ExecRule(admission, new.k)
        req == [ UserInfo |-> admission.UserInfo,
                 ExistingResource |-> IF previous = NilPointer THEN Nil ELSE old.k,
                 SubmittedResource |-> IF resource = NilPointer THEN Nil ELSE new.k,
                 ClusterAdmins |-> ConfigClusterAdmins,
                 ServiceUserTemplates |-> ConfigServiceUserTemplates,
                 TeamProvider |-> provider ]
        resolved == IF resource = NilPointer /\ previous = NilPointer
                    THEN Resolve(req, admission, answer)
                    ELSE [req |-> req, err |-> Nil]
    IN  IF old.err # Nil
        THEN [resp |-> Nil, err |-> Error("while decoding old resource: " \o old.err.error)]
        ELSE IF new.err # Nil
        THEN [resp |-> Nil, err |-> Error("while decoding resource: " \o new.err.error)]
        ELSE IF resolved.err # Nil
        THEN [resp |-> Nil, err |-> resolved.err]
        ELSE LET decision == Allowed(resolved.req)
             IN  [resp |-> [Allowed |-> decision.Allowed, Message |-> decision.Reason,
                            UID |-> ""],
                  err |-> Nil]

\* reply, lines 346-350: the review is decoded and, if that went well, admitCallback runs
Called(r, answer, provider) ==
    IF r.Body.kind = "ok"
    THEN admitCallback([Request |-> r.Body.Request], answer, provider)
    ELSE [resp |-> Nil,
          err |-> IF r.Body.kind = "syntax"
                  THEN Error("unexpected end of JSON input")
                  ELSE Error("json: cannot unmarshal number into Go value of type string")]

\* main.go, lines 327-361; the dereference of line 356 panics on a review without request
reply(r, answer, provider) ==
    IF r.ContentType # "application/json"
    THEN [review |-> Nil,
          err |-> Error("contentType=" \o r.ContentType \o ", expect application/json")]
    ELSE IF r.ReadError
    THEN [review |-> Nil,
          err |-> Error("while reading admission request: " \o "unexpected EOF")]
    ELSE LET called == Called(r, answer, provider)
             reviewResponse == IF called.err # Nil
                               THEN genericErrorResponse(<<called.err.error>>, <<>>)
                               ELSE called.resp
         IN  IF r.Body.Request = Nil
             THEN Panic
             ELSE [review |-> [Response |-> [reviewResponse EXCEPT !.UID = r.Body.Request.UID]],
                   err |-> Nil]

\* an HTTP request arrives while the team list is that of a refresh, or still the nil
\* map, and Sync waits for its timer
ServeInit ==
    /\ request = Nil /\ response = Nil /\ pc = "idle"
    /\ teamList \in {NilMap, Teams(DirectoryGroups)}
    /\ teams = teamList
    /\ refreshed = (teamList # NilMap)
    /\ syncPc = IF refreshed THEN "wait" ELSE "waitFailed"
    /\ failures = IF refreshed THEN 0 ELSE 1
    /\ atFailure = NilMap /\ replaced = NilMap /\ lastError = Nil
    /\ mutex = {}
    /\ timerArmed = TRUE /\ timerC = 0
    /\ getPc = [r \in Readers |-> "idle"]
    /\ getId = [r \in Readers |-> ""]
    /\ getResult = [r \in Readers |-> ZeroTeam]
    /\ ClockInit
    /\ DecisionIdle
    /\ httpRequest \in HTTPRequests
    /\ kubeAnswer \in KubeAnswers
    /\ callback = Nil
    /\ replied = Nil
    /\ servePc = "reply"
    /\ Admitted = 0
    /\ Denied = 0

\* serve, line 364: review, err := reply(r); a panic ends the handler, net/http recovers it
ServeReply ==
    /\ servePc = "reply"
    /\ replied' = reply(httpRequest, kubeAnswer, [id \in LabelValues |-> Get(teamList, id)])
    /\ callback' = IF httpRequest.ContentType = "application/json" /\ ~httpRequest.ReadError
                   THEN Called(httpRequest, kubeAnswer,
                               [id \in LabelValues |-> Get(teamList, id)])
                   ELSE Nil
    /\ servePc' = IF replied' = Panic THEN "panicked" ELSE "replied"
    /\ UNCHANGED <<engineVars, cacheVars, clockVars, decisionVars, httpRequest, kubeAnswer, Admitted, Denied>>

\* serve, lines 366-374: without a review there is nothing to send
ServeNoReview ==
    /\ servePc = "replied"
    /\ replied.review = Nil
    /\ servePc' = "done"
    /\ UNCHANGED <<engineVars, cacheVars, clockVars, decisionVars, httpRequest, kubeAnswer, callback,
                   replied, Admitted, Denied>>

\* serve, lines 376-380
ServeCount ==
    /\ servePc = "replied"
    /\ replied.review # Nil
    /\ IF replied.review.Response.Allowed
       THEN Admitted' = Admitted + 1 /\ UNCHANGED Denied
       ELSE Denied' = Denied + 1 /\ UNCHANGED Admitted
    /\ servePc' = "counted"
    /\ UNCHANGED <<engineVars, cacheVars, clockVars, decisionVars, httpRequest, kubeAnswer, callback, replied>>

\* serve, lines 382-386: the review is written to the client
ServeEncode ==
    /\ servePc = "counted"
    /\ servePc' = "done"
    /\ UNCHANGED <<engineVars, cacheVars, clockVars, decisionVars, httpRequest, kubeAnswer, callback,
                   replied, Admitted, Denied>>

ServeNext ==
    \/ ServeReply
    \/ ServeNoReview
    \/ ServeCount
    \/ ServeEncode

ServeSpec == ServeInit /\ [][ServeNext]_vars

(***************************************************************************)
(* The request under evaluation, as the properties below speak of it       *)
(***************************************************************************)
Done == pc = "done"

UserGroups == {request.UserInfo.Groups[i] : i \in 1..Len(request.UserInfo.Groups)}
AdminGroups == {request.ClusterAdmins[i] : i \in 1..Len(request.ClusterAdmins)}
IsClusterAdmin == UserGroups \cap AdminGroups # {}

HasSubmitted == request.SubmittedResource # Nil
HasExisting == request.ExistingResource # Nil

LabelOf(view) == IF "team" \in DOMAIN view.Labels THEN view.Labels["team"] ELSE ""
SubmittedLabel == LabelOf(request.SubmittedResource)
ExistingLabel == LabelOf(request.ExistingResource)
Lookup(label) == request.TeamProvider[label]

\* the requester holds the team's directory group
Holds(team) == team.AzureUUID \in UserGroups
\* the username equals a configured template formatted with the team's ID
MatchesTemplate(team) ==
    \E i \in 1..Len(request.ServiceUserTemplates) :
        request.UserInfo.Username =
            Sprintf(request.ServiceUserTemplates[i], <<team.ID, team.ID>>)

\* the submitted view is absent or passed label validation
SubmittedPassed == HasSubmitted => (SubmittedLabel # "" /\ Valid(Lookup(SubmittedLabel)))
\* the existing view is absent, unlabelled, or labelled with a valid team the requester may touch
ExistingPassed ==
    (HasExisting /\ ExistingLabel # "") =>
        /\ Valid(Lookup(ExistingLabel))
        /\ (Holds(Lookup(ExistingLabel)) \/ MatchesTemplate(Lookup(ExistingLabel)))

Deny(reason) == [Allowed |-> FALSE, Reason |-> reason]
Allow(reason) == [Allowed |-> TRUE, Reason |-> reason]

(***************************************************************************)
(* Properties of the decision engine                                       *)
(***************************************************************************)

\* C1: a requester with a group in the cluster-admin list is allowed, with the
\* cluster-administrator reason naming one of those groups, whatever the views are.
C1_AdminOverride ==
    (Done /\ IsClusterAdmin) =>
        \E G \in UserGroups \cap AdminGroups :
            response = Allow("user is cluster administrator through group '" \o G \o "'")

\* an administrator submitting an unlabelled resource over one of an unknown team
C1_Witness ==
    /\ Done /\ IsClusterAdmin
    /\ request.SubmittedResource = emptyResource
    /\ request.ExistingResource = resourceWithTeam("does-not-exist")
    /\ request.UserInfo.Groups = <<"foo", "cluster-admin">>
    /\ response.Allowed

\* C2: a non-admin request whose submitted view has no or an empty team label is denied
\* with "object is not tagged with a team label", whatever else the request holds.
C2_LabelRequired ==
    (Done /\ ~IsClusterAdmin /\ HasSubmitted /\ SubmittedLabel = "") =>
        response = Deny("object is not tagged with a team label")

\* a member of the existing team submits the resource without its label
C2_Witness ==
    /\ Done /\ ~IsClusterAdmin
    /\ request.SubmittedResource = resourceWithTeam("")
    /\ request.ExistingResource = resourceWithTeam("foo")
    /\ request.TeamProvider = mockedTeamProvider
    /\ request.UserInfo.Groups = <<"foo">>
    /\ response = Deny("object is not tagged with a team label")

\* C3: a non-admin request whose submitted label L is non-empty and looked up as an
\* invalid team is denied with "team 'L' does not exist in Azure AD".
C3_TeamMustExist ==
    (Done /\ ~IsClusterAdmin /\ HasSubmitted /\ SubmittedLabel # ""
          /\ ~Valid(Lookup(SubmittedLabel))) =>
        response = Deny("team '" \o SubmittedLabel \o "' does not exist in Azure AD")

\* a requester holding a group named like the unknown team is told the team is unknown
C3_Witness ==
    /\ Done /\ ~IsClusterAdmin
    /\ request.SubmittedResource = resourceWithTeam("foo")
    /\ request.TeamProvider = emptyTeamProvider
    /\ request.UserInfo.Groups = <<"foo">>
    /\ response = Deny("team 'foo' does not exist in Azure AD")

\* C4: when the existing view is labelled with a valid team E and the submitted view is
\* absent or passed label validation, a non-admin requester who neither holds E's
\* directory group nor is named like a service-user template formatted with E's ID is
\* denied with "user 'U' has no access to team 'E'", member of the submitted team or not.
C4_ExistingTeamGuards ==
    (Done /\ ~IsClusterAdmin /\ SubmittedPassed
          /\ HasExisting /\ ExistingLabel # "" /\ Valid(Lookup(ExistingLabel))
          /\ ~Holds(Lookup(ExistingLabel)) /\ ~MatchesTemplate(Lookup(ExistingLabel))) =>
        response = Deny("user '" \o request.UserInfo.Username \o "' has no access to team '"
                        \o Lookup(ExistingLabel).ID \o "'")

\* a member of team foo submits, labelled foo, a resource that belongs to team baz
C4_Witness ==
    /\ Done /\ ~IsClusterAdmin
    /\ request.SubmittedResource = resourceWithTeam("foo")
    /\ request.ExistingResource = resourceWithTeam("baz")
    /\ request.TeamProvider = directoryTeamProvider
    /\ request.UserInfo.Username = "bar"
    /\ request.UserInfo.Groups = <<"uuid-foo">>
    /\ response = Deny("user 'bar' has no access to team 'baz'")

\* C5: when the existing view carries a non-empty label X looked up as an invalid team and
\* the submitted view is absent or passed label validation, a non-admin request is denied
\* with "team 'X' on existing resource does not exist in Azure AD".
C5_ExistingTeamMustExist ==
    (Done /\ ~IsClusterAdmin /\ SubmittedPassed
          /\ HasExisting /\ ExistingLabel # "" /\ ~Valid(Lookup(ExistingLabel))) =>
        response = Deny("team '" \o ExistingLabel
                        \o "' on existing resource does not exist in Azure AD")

\* a member of team foo updates into foo a resource labelled with an unknown team
C5_Witness ==
    /\ Done /\ ~IsClusterAdmin
    /\ request.SubmittedResource = resourceWithTeam("foo")
    /\ request.ExistingResource = resourceWithTeam("does-not-exist")
    /\ request.TeamProvider = mockedTeamProvider
    /\ request.UserInfo.Groups = <<"foo">>
    /\ response = Deny("team 'does-not-exist' on existing resource does not exist in Azure AD")

\* C6: default deny.  A non-admin request with a submitted view labelled with a valid team
\* S whose existing view is absent or passed the existing-resource check is denied with
\* "user 'U' has no access to team 'S'" (S the submitted label) when the requester neither
\* holds S's directory group nor is named like a service-user template formatted with S's ID.
C6_DefaultDeny ==
    (Done /\ ~IsClusterAdmin
          /\ HasSubmitted /\ SubmittedLabel # "" /\ Valid(Lookup(SubmittedLabel))
          /\ ExistingPassed
          /\ ~Holds(Lookup(SubmittedLabel)) /\ ~MatchesTemplate(Lookup(SubmittedLabel))) =>
        response = Deny("user '" \o request.UserInfo.Username \o "' has no access to team '"
                        \o SubmittedLabel \o "'")

\* a member of team baz moves its resource to team foo, which they do not belong to
C6_Witness ==
    /\ Done /\ ~IsClusterAdmin
    /\ request.SubmittedResource = resourceWithTeam("foo")
    /\ request.ExistingResource = resourceWithTeam("baz")
    /\ request.TeamProvider = directoryTeamProvider
    /\ request.UserInfo.Username = "bar"
    /\ request.UserInfo.Groups = <<"uuid-baz">>
    /\ response = Deny("user 'bar' has no access to team 'foo'")

\* a non-admin update that moves a resource from valid team A (existing label) to a
\* different valid team B (submitted label)
IsTeamMove ==
    /\ ~IsClusterAdmin /\ HasSubmitted /\ HasExisting
    /\ ExistingLabel # "" /\ SubmittedLabel # "" /\ ExistingLabel # SubmittedLabel
    /\ Valid(Lookup(ExistingLabel)) /\ Valid(Lookup(SubmittedLabel))

\* C7, as claimed: a team move is allowed if and only if the requester holds both A's and
\* B's directory groups, or matches a service-user template for B while passing the
\* ownership check on A.
C7_MoveNeedsBothGroups ==
    (Done /\ IsTeamMove) =>
        (response.Allowed <=>
            \/ Holds(Lookup(ExistingLabel)) /\ Holds(Lookup(SubmittedLabel))
            \/ /\ MatchesTemplate(Lookup(SubmittedLabel))
               /\ (Holds(Lookup(ExistingLabel)) \/ MatchesTemplate(Lookup(ExistingLabel))))

\* C7, amended: a team move is allowed if and only if the requester passes the ownership
\* check on A (holds A's directory group or matches a service-user template for A) and
\* the ownership check on B (holds B's directory group or matches a template for B).
C7_MoveNeedsBothChecks ==
    (Done /\ IsTeamMove) =>
        (response.Allowed <=>
            /\ (Holds(Lookup(ExistingLabel)) \/ MatchesTemplate(Lookup(ExistingLabel)))
            /\ (Holds(Lookup(SubmittedLabel)) \/ MatchesTemplate(Lookup(SubmittedLabel))))

\* the service user of team baz, holding only team foo's group, moves a resource of baz to foo
C7_Witness ==
    /\ Done /\ IsTeamMove
    /\ request.ExistingResource = resourceWithTeam("baz")
    /\ request.SubmittedResource = resourceWithTeam("foo")
    /\ request.TeamProvider = directoryTeamProvider
    /\ request.UserInfo.Username = "system:serviceaccounts:baz:serviceuser-baz"
    /\ request.UserInfo.Groups = <<"uuid-foo">>
    /\ request.ServiceUserTemplates = <<TestTemplate>>
    /\ response = Allow("user belongs to owner team 'foo'")

C9_AnnexationByAnyone ==
    (Done /\ ~IsClusterAdmin
          /\ HasSubmitted /\ SubmittedLabel # "" /\ Valid(Lookup(SubmittedLabel))
          /\ HasExisting /\ ExistingLabel = "") =>
        response = Allow("resource did not have a team label set")

\* a non-admin delete of a resource labelled with valid team E by a holder of E's group
IsOwnerDelete ==
    /\ ~IsClusterAdmin /\ ~HasSubmitted /\ HasExisting
    /\ ExistingLabel # "" /\ Valid(Lookup(ExistingLabel))
    /\ Holds(Lookup(ExistingLabel))

\* C10, as claimed: an owner's delete is allowed with "user belongs to owner team 'E'"
\* for every username and template configuration.
C10_OwnerDeleteReasonIsTeam ==
    (Done /\ IsOwnerDelete) =>
        response = Allow("user belongs to owner team '" \o ExistingLabel \o "'")

\* C10, amended: an owner's delete is allowed; the reason is "user belongs to owner team
\* 'E'" unless the username also matches a service-user template formatted with E's ID,
\* and then it is "user matches service user template".
C10_OwnerDeleteAllowed ==
    (Done /\ IsOwnerDelete) =>
        response = IF MatchesTemplate(Lookup(ExistingLabel))
                   THEN Allow("user matches service user template")
                   ELSE Allow("user belongs to owner team '" \o ExistingLabel \o "'")

\* team foo's service user, also holding foo's group, deletes a resource of foo
C10_Witness ==
    /\ Done /\ IsOwnerDelete
    /\ request.ExistingResource = resourceWithTeam("foo")
    /\ request.TeamProvider = mockedTeamProvider
    /\ request.UserInfo.Username = "system:serviceaccounts:foo:serviceuser-foo"
    /\ request.UserInfo.Groups = <<"foo">>
    /\ request.ServiceUserTemplates = <<TestTemplate>>
    /\ response = Allow("user matches service user template")

(***************************************************************************)
(* Service users                                                           *)
(***************************************************************************)
\* the number of %s verbs of a format
Slots(format) == Cardinality({i \in 1..Len(format) : format[i] = VerbS})

\* the request is a create, update or delete that concerns the one valid team labelled l
IsAbout(l) ==
    /\ l # "" /\ Valid(Lookup(l))
    /\ HasSubmitted \/ HasExisting
    /\ HasSubmitted => SubmittedLabel = l
    /\ HasExisting => ExistingLabel = l

\* the valid teams a request touches through its views
TouchedLabels ==
    {l \in LabelValues \ {""} :
        /\ Valid(Lookup(l))
        /\ (HasSubmitted /\ SubmittedLabel = l) \/ (HasExisting /\ ExistingLabel = l)}

\* C11, as claimed: with a configured template of exactly one slot, a non-admin requester
\* without groups whose username is that template with the slot replaced by valid team
\* T's ID is allowed to create, update and delete T's resources, with the reason
\* "user matches service user template".
C11_OneSlotTemplateGrants ==
    \A l \in LabelValues :
        (/\ Done /\ ~IsClusterAdmin /\ request.UserInfo.Groups = <<>>
         /\ IsAbout(l)
         /\ \E i \in 1..Len(request.ServiceUserTemplates) :
                /\ Slots(request.ServiceUserTemplates[i]) = 1
                /\ request.UserInfo.Username =
                       Sprintf(request.ServiceUserTemplates[i], <<Lookup(l).ID>>))
        => response = Allow("user matches service user template")

\* C12: service-user matching is exact and per team.  A non-admin requester without groups
\* is allowed on a request touching valid team T only if the username equals a configured
\* template formatted with T's ID; a prefix or an extension of such a name, or the name
\* formatted with another team's ID, does not give access to T.
C12_ExactPerTeamMatch ==
    (Done /\ ~IsClusterAdmin /\ request.UserInfo.Groups = <<>> /\ response.Allowed) =>
        \A l \in TouchedLabels : MatchesTemplate(Lookup(l))

\* a name that extends the service user of team foo creates a resource of foo
C12_NearMissWitness ==
    /\ Done /\ ~IsClusterAdmin /\ request.UserInfo.Groups = <<>>
    /\ request.UserInfo.Username = "system:serviceaccounts:foo:serviceuser-foo-x"
    /\ request.ServiceUserTemplates = <<TestTemplate>>
    /\ request.TeamProvider = directoryTeamProvider
    /\ request.SubmittedResource = resourceWithTeam("foo")
    /\ request.ExistingResource = Nil
    /\ response = Deny("user 'system:serviceaccounts:foo:serviceuser-foo-x' has no access to team 'foo'")

\* the service user of team baz deletes a resource of baz
C12_Witness ==
    /\ Done /\ ~IsClusterAdmin /\ request.UserInfo.Groups = <<>>
    /\ request.UserInfo.Username = "system:serviceaccounts:baz:serviceuser-baz"
    /\ TouchedLabels = {"baz"}
    /\ response.Allowed

(***************************************************************************)
(* Totality and the reasons                                                *)
(***************************************************************************)
\* C13: Allowed is total.  Whatever views are present or absent, labelled or not, and
\* whatever the identity and the configuration, it returns one Response and does not
\* panic; a refusal is a Response with Allowed false and a reason.
C13_Total ==
    Done =>
        /\ response # Panic
        /\ DOMAIN response = {"Allowed", "Reason"}
        /\ response.Allowed \in BOOLEAN
        /\ response.Reason # ""

\* a delete whose new object decoded to a nil pointer, of a resource of an unknown team
C13_Witness ==
    /\ Done /\ ~IsClusterAdmin
    /\ request.SubmittedResource = Nil
    /\ request.ExistingResource = resourceWithTeam("does-not-exist")
    /\ request.TeamProvider = directoryTeamProvider
    /\ response = Deny("team 'does-not-exist' on existing resource does not exist in Azure AD")

\* the reason is an instance of one of the four success templates
IsSuccessReason(reason) ==
    \/ \E g \in GroupNames : reason = "user is cluster administrator through group '" \o g \o "'"
    \/ \E t \in LabelValues : reason = "user belongs to owner team '" \o t \o "'"
    \/ reason = "user matches service user template"
    \/ reason = "resource did not have a team label set"

\* the reason is an instance of one of the four error templates
IsErrorReason(reason) ==
    \/ reason = "object is not tagged with a team label"
    \/ \E t \in LabelValues : reason = "team '" \o t \o "' does not exist in Azure AD"
    \/ \E t \in LabelValues :
           reason = "team '" \o t \o "' on existing resource does not exist in Azure AD"
    \/ \E u \in Usernames, t \in LabelValues :
           reason = "user '" \o u \o "' has no access to team '" \o t \o "'"

\* C14: the reason of every Response is an instance of one of the eight templates; the
\* Response allows exactly when it is an instance of a success template and refuses
\* exactly when it is an instance of an error template.
C14_ClosedReasons ==
    Done =>
        /\ IsSuccessReason(response.Reason) \/ IsErrorReason(response.Reason)
        /\ response.Allowed <=> IsSuccessReason(response.Reason)
        /\ ~response.Allowed <=> IsErrorReason(response.Reason)

\* the default deny of a request without views names the empty team
C14_Witness ==
    /\ Done
    /\ request.SubmittedResource = Nil /\ request.ExistingResource = Nil
    /\ request.UserInfo.Username = "bar"
    /\ response = Deny("user 'bar' has no access to team ''")
    /\ IsErrorReason(response.Reason)

(***************************************************************************)
(* Properties of the team list                                             *)
(***************************************************************************)
\* the team lists azure.Teams can return, and the nil map
CompleteSnapshots == {NilMap} \cup {Teams(groups) : groups \in Directories}

\* C16: after a failed refresh the team list is what it was: Get answers every id as
\* before the failure, after the first failure and after any number of further ones.
C16_FailureKeepsSnapshot ==
    failures >= 1 =>
        /\ \A id \in LabelValues : Get(teamList, id) = Get(atFailure, id)
        /\ \A r \in Readers :
               getPc[r] = "unlock" => getResult[r] = Get(atFailure, getId[r])

\* two refreshes in a row have failed and Get still answers from the list stored before
C16_Witness ==
    /\ failures = MaxFailures
    /\ syncPc = "waitFailed"
    /\ teamList = Teams(DirectoryGroups)
    /\ \E r \in Readers :
           /\ getPc[r] = "unlock" /\ getId[r] = "baz"
           /\ getResult[r] = [AzureUUID |-> "uuid-baz", ID |-> "baz"]

\* main.go, line 238: the TeamProvider of a request is teams.Get
CacheProvider == [id \in LabelValues |-> Get(teamList, id)]

\* non-admin requests with a labelled submitted view
LabelledRequests ==
    [ UserInfo : [Username : {"bar", "system:serviceaccounts:foo:serviceuser-foo"},
                  Groups : SeqsUpTo(GroupNames \ {"cluster-admin"}, 1)],
      ExistingResource : Views,
      SubmittedResource : {resourceWithTeam(l) : l \in LabelValues \ {""}},
      ClusterAdmins : {<<>>, <<"cluster-admin">>},
      ServiceUserTemplates : {<<>>, <<TestTemplate>>},
      TeamProvider : {CacheProvider} ]

\* C17: cold start.  Before the first successful refresh Get answers every id with the
\* zero Team, so a non-admin request with a labelled submitted view is denied with "team
\* does not exist"; and at any time Get answers an id that is not in the team list with
\* the zero Team.
C17_ColdStart ==
    /\ ~refreshed =>
           /\ \A id \in LabelValues : Get(teamList, id) = ZeroTeam /\ ~Valid(Get(teamList, id))
           /\ \A r \in Readers : getPc[r] = "unlock" => getResult[r] = ZeroTeam
           /\ \A req \in LabelledRequests :
                  Allowed(req) = [Allowed |-> FALSE,
                                  Reason |-> "team '" \o req.SubmittedResource.Labels["team"]
                                             \o "' does not exist in Azure AD"]
    /\ \A r \in Readers :
           (getPc[r] = "unlock" /\ getId[r] \notin DOMAIN teamList) => getResult[r] = ZeroTeam

\* the first refreshes failed and a Get for team foo has read the zero Team
C17_Witness ==
    /\ ~refreshed /\ failures >= 1
    /\ \E r \in Readers : getPc[r] = "unlock" /\ getId[r] = "foo" /\ getResult[r] = ZeroTeam

\* C18: the swap is atomic for readers.  The mutex has at most one holder, the team
\* list is always a complete result of azure.Teams (or the initial nil map), and the
\* value a Get has read is the entry of the team list as it stands while that Get holds
\* the mutex: the list before a swap or the one after it, never a mixture.
C18_AtomicSwap ==
    /\ Cardinality(mutex) <= 1
    /\ teamList \in CompleteSnapshots
    /\ \A r \in Readers :
           getPc[r] = "unlock" =>
               /\ mutex = {r}
               /\ getResult[r] = Get(teamList, getId[r])
               /\ \E snapshot \in CompleteSnapshots : getResult[r] = Get(snapshot, getId[r])
    /\ syncPc \in {"store", "unlock"} => mutex = {0}

\* Sync waits with a new team list while one Get holds the mutex and another waits too
C18_Witness ==
    /\ syncPc = "lock" /\ teams # teamList /\ refreshed
    /\ \E r, q \in Readers :
           /\ getPc[r] = "unlock" /\ mutex = {r}
           /\ getId[r] = "baz" /\ getResult[r] = Get(teamList, "baz")
           /\ Get(teams, "baz") # getResult[r]
           /\ getPc[q] = "lock"

\* C19: a successful refresh replaces the team list as a whole.  From the store to the
\* next turn of the loop Get answers every id of the fetched map with the fetched team and
\* every other id, ids of the replaced list included, with the zero Team.
C19_WholesaleReplace ==
    syncPc \in {"unlock", "wait"} =>
        \A id \in LabelValues :
            Get(teamList, id) = IF id \in DOMAIN teams THEN teams[id] ELSE ZeroTeam

\* team baz was in the replaced list and is not in the fetched one
C19_Witness ==
    /\ syncPc = "unlock"
    /\ "baz" \in DOMAIN replaced /\ "baz" \notin DOMAIN teams
    /\ Get(teamList, "baz") = ZeroTeam
    /\ Get(teamList, "foo") = [AzureUUID |-> "uuid-foo", ID |-> "foo"]

\* C20: Sync never ends and never stops retrying.  It stays in its loop, and after every
\* refresh, failed or successful, it starts another one.
C20_SyncKeepsRetrying ==
    /\ [](syncPc \in {"new", "reset", "fetch", "lock", "store", "unlock", "wait", "waitFailed"})
    /\ (syncPc = "waitFailed") ~> (syncPc = "fetch")
    /\ (syncPc = "wait") ~> (syncPc = "fetch")
    /\ []<>(syncPc = "fetch")

\* a refresh starts after refreshes have failed in a row
C20_Witness ==
    /\ syncPc = "fetch"
    /\ failures = MaxFailures

(***************************************************************************)
(* Properties of the pace of Sync                                          *)
(***************************************************************************)
\* C21: Sync waits a full interval between the starts of two consecutive refresh
\* attempts, after a success and after a failure alike, and the first attempt starts
\* without a wait.
C21_FullIntervalBetweenStarts ==
    /\ prevStart # -1 => lastStart - prevStart >= Interval
    /\ lastStart = -1 => syncPc \in {"new", "reset"}

(***************************************************************************)
(* Properties of the webhook                                               *)
(***************************************************************************)
\* admitCallback ran for the request being served, which has a review request
Admitting == servePc # "reply" /\ callback # Nil /\ httpRequest.Body.kind = "ok"
                /\ httpRequest.Body.Request # Nil

\* the review carries no object once the rule for pods/exec is applied: admitCallback looks
\* the object up in the cluster
NeedsLookup ==
    LET admission == httpRequest.Body.Request
    IN  /\ decode(admission.OldObject).err = Nil
        /\ decode(admission.Object).err = Nil
        /\ ExecRule(admission, decode(admission.OldObject).k) = NilPointer
        /\ ExecRule(admission, decode(admission.Object).k) = NilPointer

\* the lookup fails
LookupFails ==
    ObjectFromAdmissionRequest(kubeAnswer, httpRequest.Body.Request).err # Nil

RequesterIsAdmin ==
    \E i \in DOMAIN httpRequest.Body.Request.UserInfo.Groups :
        httpRequest.Body.Request.UserInfo.Groups[i] = "cluster-admin"

\* C22: when the admission call carries neither object and the lookup in the cluster
\* fails, admitCallback returns the error and no verdict, and the reply is not an allow,
\* unless the requester is a cluster administrator; the administrator's request is
\* decided and allowed by the admin override.
C22_LookupFailureIsFatalUnlessAdmin ==
    (Admitting /\ NeedsLookup /\ LookupFails) =>
        IF RequesterIsAdmin
        THEN /\ callback.err = Nil
             /\ callback.resp.Allowed
             /\ callback.resp.Message = "user is cluster administrator through group 'cluster-admin'"
             /\ replied.review.Response.Allowed
        ELSE /\ callback.resp = Nil
             /\ callback.err = Error("while retrieving resource: " \o
                    ObjectFromAdmissionRequest(kubeAnswer, httpRequest.Body.Request).err.error)
             /\ ~replied.review.Response.Allowed

\* a non-admin's delete without objects, whose object the API server does not find
C22_Witness ==
    /\ Admitting /\ NeedsLookup /\ LookupFails
    /\ ~RequesterIsAdmin
    /\ httpRequest.Body.Request.Name = "app"
    /\ httpRequest.Body.Request.OldObject = RawEmpty
    /\ servePc = "done" /\ Denied = 1 /\ Admitted = 0
    /\ replied.review.Response.Message
          = "while retrieving resource: the server could not find the requested resource"

\* C30: for every request with JSON content type reply returns a review whose response
\* carries the UID of the request; when decoding the review or admitCallback fails, a
\* review without request included, the response is allowed=false with the error text as
\* message and no fault; and serve increments exactly the counter of the verdict.
C30_ReplyAlwaysAnswers ==
    (servePc # "reply" /\ httpRequest.ContentType = "application/json") =>
        /\ replied # Panic
        /\ replied.review # Nil
        /\ httpRequest.Body.Request # Nil =>
               replied.review.Response.UID = httpRequest.Body.Request.UID
        /\ (callback # Nil /\ callback.err # Nil) =>
               /\ ~replied.review.Response.Allowed
               /\ replied.review.Response.Message = callback.err.error
        /\ servePc = "done" =>
               /\ Admitted + Denied = 1
               /\ (Admitted = 1) <=> replied.review.Response.Allowed

(***************************************************************************)
(* Deletes of unlabelled resources, the final check, requests without views *)
(***************************************************************************)
\* a non-admin delete (no submitted view) of an existing resource without team label
IsOrphanDelete == ~IsClusterAdmin /\ ~HasSubmitted /\ HasExisting /\ ExistingLabel = ""

ReachesFinalCheck == ~IsClusterAdmin /\ HasSubmitted /\ SubmittedPassed /\ ExistingPassed

\* C24: in the final ownership check a holder of the submitted team's group is allowed,
\* with the annexation reason exactly when there is an existing view with an empty team
\* label and with "user belongs to owner team 'S'" otherwise; the group comes before the
\* service user templates, whose reason is given only to a requester without the group.
C24_FinalCheckReasons ==
    (Done /\ ReachesFinalCheck) =>
        /\ Holds(Lookup(SubmittedLabel)) =>
               response = IF HasExisting /\ ExistingLabel = ""
                          THEN Allow("resource did not have a team label set")
                          ELSE Allow("user belongs to owner team '" \o SubmittedLabel \o "'")
        /\ response = Allow("resource did not have a team label set") =>
               (Holds(Lookup(SubmittedLabel)) /\ HasExisting /\ ExistingLabel = "")
        /\ response = Allow("user matches service user template") <=>
               (~Holds(Lookup(SubmittedLabel)) /\ MatchesTemplate(Lookup(SubmittedLabel)))

\* team foo's service user, who also holds foo's group, updates a resource of foo
C24_Witness ==
    /\ Done /\ ReachesFinalCheck
    /\ request.SubmittedResource = resourceWithTeam("foo")
    /\ request.ExistingResource = resourceWithTeam("foo")
    /\ request.TeamProvider = mockedTeamProvider
    /\ request.UserInfo.Username = "system:serviceaccounts:foo:serviceuser-foo"
    /\ request.UserInfo.Groups = <<"foo">>
    /\ request.ServiceUserTemplates = <<TestTemplate>>
    /\ response = Allow("user belongs to owner team 'foo'")

\* C28: a non-admin request without submitted and without existing view is never allowed:
\* it gets the default deny, whatever the groups and the username of the requester.
C28_NoViewsDenied ==
    (Done /\ ~IsClusterAdmin /\ ~HasSubmitted /\ ~HasExisting) =>
        /\ ~response.Allowed
        /\ response = Deny("user '" \o request.UserInfo.Username \o "' has no access to team ''")

(***************************************************************************)
(* Decisions and the team list                                             *)
(***************************************************************************)
\* C25: a decision observes one team list.  When Allowed has looked up the submitted and
\* the existing team, both lookups were answered from the same team list, the one current
\* at the first of them, and the verdict is the verdict on that list.
C25_OneSnapshotPerDecision ==
    (pc = "done" /\ Len(snapshots) = 2) =>
        /\ snapshots[1] = snapshots[2]
        /\ response = Allowed([request EXCEPT !.TeamProvider = Answers(snapshots[1])])

(***************************************************************************)
(* Sync and the handlers                                                   *)
(***************************************************************************)
\* C26: Sync never blocks the handlers.  It holds the mutex only to replace the team
\* list, never during a fetch or while it waits for the timer, and a call of Get returns
\* even if the fetch in progress never does.
C26_SyncNeverBlocksGet ==
    /\ [](0 \in mutex => syncPc \in {"store", "unlock"})
    /\ \A r \in Readers : (getPc[r] = "lock") ~> (getPc[r] = "idle")

\* during a fetch that follows a failed one a Get holds the mutex and has its answer
C26_Witness ==
    /\ syncPc = "fetch" /\ failures >= 1
    /\ \E r \in Readers : mutex = {r} /\ getPc[r] = "unlock"

\* C27: the team list is well formed.  Every entry is a valid Team stored under its own
\* lower-cased ID, so Get answers an id with the zero Team or with a valid Team of that
\* ID, and the team named in a deny reason built from the ID of the team looked up is the
\* label that was looked up.
C27_WellFormedSnapshot ==
    /\ \A k \in DOMAIN teamList :
           Valid(teamList[k]) /\ teamList[k].ID = k /\ ToLower(k) = k
    /\ \A id \in LabelValues :
           Get(teamList, id) = ZeroTeam
               \/ (Valid(Get(teamList, id)) /\ Get(teamList, id).ID = id)
    /\ \A r \in Readers :
           getPc[r] = "unlock" =>
               getResult[r] = ZeroTeam
                   \/ (Valid(getResult[r]) /\ getResult[r].ID = getId[r])
    /\ \A req \in LabelledRequests :
           LET existingLabel == IF req.ExistingResource # Nil
                                THEN MapGet(GetLabels(req.ExistingResource), "team") ELSE ""
               decided == ExistingCheck(req)
           IN  (decided # Nil /\ ~decided.Allowed /\ Valid(Get(teamList, existingLabel))) =>
                   decided.Reason = "user '" \o req.UserInfo.Username
                                        \o "' has no access to team '" \o existingLabel \o "'"

\* the directory's groups Foo, baz and one without nickname are cached as foo and baz,
\* and a Get for foo has read the team
C27_Witness ==
    /\ teamList = Teams(DirectoryGroups)
    /\ DOMAIN teamList = {"foo", "baz"}
    /\ \E r \in Readers :
           /\ getPc[r] = "unlock" /\ getId[r] = "foo"
           /\ getResult[r] = [AzureUUID |-> "uuid-foo", ID |-> "foo"]

(***************************************************************************)
(* The fetch of the directory                                              *)
(***************************************************************************)
\* the groups of a directory answer, were every one of them fetched
AllGroups(answer) ==
    LET listed == SelectSeq(answer.principals, LAMBDA p : p.PrincipalType = "Group")
    IN  [i \in 1..Len(listed) |-> listed[i].Group]

\* the listing fails or a group that is to be fetched cannot be
FetchFails(answer) ==
    \/ answer.listFails
    \/ \E i \in 1..Len(answer.principals) :
           answer.principals[i].PrincipalType = "Group" /\ answer.principals[i].Fails

\* C29: a refresh is all or nothing.  If the listing of the role assignments or the
\* fetch of any one group fails, azure.Teams returns an error and no map, otherwise the
\* map of all groups; Sync does not store after an error, and the team list is always
\* the complete map of a fetch without failure, or the initial nil map.
C29_AllOrNothing ==
    /\ \A answer \in DirectoryAnswers :
           IF FetchFails(answer)
           THEN azureTeams(answer).err # Nil /\ azureTeams(answer).teams = NilMap
           ELSE azureTeams(answer).err = Nil
                    /\ azureTeams(answer).teams = Teams(AllGroups(answer))
    /\ lastError # Nil => (teams = NilMap /\ syncPc \in {"waitFailed", "reset", "fetch"})
    /\ teamList \in {NilMap} \cup {Teams(groups) : groups \in Directories}

\* the fetch of one group failed after a refresh had succeeded: the team list is the old
\* one and nothing was stored
C29_Witness ==
    /\ lastError = Error("recurse into groups: 404 Not Found: ")
    /\ syncPc = "waitFailed"
    /\ teams = NilMap
    /\ refreshed /\ teamList = Teams(DirectoryGroupsLater)

====
